---- MODULE Spec2Model ----
(***************************************************************************)
(* Model of the feed scheduling / ingestion / notification pipeline of     *)
(* upwork-feed-scraper: FeedManager (feed_processor.py), the Database      *)
(* interface (database.py) and Email (email_handler.py).                   *)
(*                                                                         *)
(* Time is counted in whole ticks.  The coroutines of the program run on   *)
(* one event loop, so every stretch of code between two awaits is one      *)
(* atomic action:                                                          *)
(*   - add_new_feed awaits only its fetch, which precedes every access to  *)
(*     the state: the fetch result is the input of one action;             *)
(*   - a feed task (_get_and_process_feed) likewise awaits only its fetch; *)
(*   - run_feed_loop awaits the gather and the sleep.                      *)
(***************************************************************************)
EXTENDS Integers, Sequences, FiniteSets, TLC

\* ---------------------------------------------------------------- bounds
MaxBatch == 2
MaxTime == 2

\* FeedManager._wait_seconds, the configured interval between two checks of
\* a feed, in ticks.
wait_seconds == 2

\* The urls of the feeds and of the entries the feeds carry.
FeedUrls == {"feed1", "feed2"}
EntryUrls == {"job1", "job2"}

None == "None"

\* ------------------------------------------------------- small utilities
Range(s) == {s[i] : i \in 1..Len(s)}

SeqsUpTo(S, n) == UNION {[1..k -> S] : k \in 0..n}

\* ------------------------------------------------- email_handler.py
\* Characters of an address, by the classes the pattern of validate_email
\* tells apart: "a" letter or digit, "-" hyphen, "_" underscore or plus,
\* "." dot, "@" at sign, "!" anything else.
InLocal(c) == c \in {"a", "-", "_", "."}
InDomainHead(c) == c \in {"a", "-"}
InDomainTail(c) == c \in {"a", "-", "."}

\* ^[a-zA-Z0-9_.+-]+@[a-zA-Z0-9-]+\.[a-zA-Z0-9-.]+$
validate_email(email) ==
    \E at \in 1..Len(email) : \E dot \in 1..Len(email) :
        /\ email[at] = "@"
        /\ email[dot] = "."
        /\ 1 < at
        /\ at + 1 < dot
        /\ dot < Len(email)
        /\ \A i \in 1..(at - 1) : InLocal(email[i])
        /\ \A i \in (at + 1)..(dot - 1) : InDomainHead(email[i])
        /\ \A i \in (dot + 1)..Len(email) : InDomainTail(email[i])

\* The environment variables EmailAccount._read_credentials reads.
EmailNames == {"EMAIL_SERVER", "EMAIL_PORT", "EMAIL_USERNAME", "EMAIL_PASSWORD"}

\* _read_credentials without the validation of from_address.
EmailAccount_read_credentials_unvalidated(env) ==
    IF \E name \in EmailNames : name \notin env.names
    THEN "MissingCredentialsException"
    ELSE None

\* EmailAccount._read_credentials on the environment env: the exception it
\* raises, None when it returns.
EmailAccount_read_credentials(env) ==
    IF \E name \in EmailNames : name \notin env.names
    THEN "MissingCredentialsException"
    ELSE IF validate_email(env.EMAIL_USERNAME) = FALSE
    THEN "InvalidSMTPAddressException"
    ELSE None

\* Destination addresses the FeedManager is constructed with.
ToAddresses ==
    { <<"a", ".", "a", "@", "a", ".", "a">>,     \* jane.doe@example.com
      <<"a", ".", "a", "@", "a">> }              \* jane.doe@123

\* What the SMTP conversation of Email.send can end in: delivery, or an
\* exception raised inside the with block, one for each except clause
\* (SMTPNotSupportedError, SMTPSenderRefused and SMTPConnectError are handled
\* as the exception they share their clause with).
SmtpOutcomes ==
    { "sent", "SMTPAuthenticationError", "SMTPRecipientsRefused",
      "SMTPServerDisconnected", "OSError" }

\* The with block of Email.send with the message sent before the login.
SmtpSteps_unauthenticated == <<"connect", "starttls", "send_message", "login">>

\* The calls of the with block of Email.send on smtplib, in the order of the
\* code: smtplib.SMTP(server, port), which connects, then starttls, login
\* and send_message.
SmtpSteps == <<"connect", "starttls", "login", "send_message">>

\* The call of the with block in which the exception of an outcome is
\* raised: the connection fails with an OSError, is lost at the next command,
\* the login is refused, the recipients are refused.  No call raises when
\* the message is sent.
RaisedAt(outcome) ==
    CASE outcome = "OSError" -> 1
      [] outcome = "SMTPServerDisconnected" -> 2
      [] outcome = "SMTPAuthenticationError" -> 3
      [] outcome = "SMTPRecipientsRefused" -> 4
      [] OTHER -> Len(SmtpSteps) + 1

\* The calls Email.send makes on smtplib: the with block runs its calls in
\* order, each once, up to the first that raises.
Email_send_calls(outcome) ==
    [i \in 1..(IF RaisedAt(outcome) > Len(SmtpSteps)
                THEN Len(SmtpSteps) ELSE RaisedAt(outcome)) |-> SmtpSteps[i]]

\* Email.send with a refused recipient handled like a lost connection:
\* logged, not raised.
Email_send_swallowing(outcome) ==
    CASE outcome = "SMTPAuthenticationError" -> "InvalidSMTPLoginException"
      [] outcome \in {"SMTPRecipientsRefused", "SMTPServerDisconnected", "sent"} -> None
      [] OTHER -> outcome

\* Email.send: the exception that leaves send() for a given outcome of the
\* SMTP conversation, None when send() returns normally.
Email_send(outcome) ==
    CASE outcome = "SMTPAuthenticationError" -> "InvalidSMTPLoginException"
      [] outcome = "SMTPRecipientsRefused" -> "InvalidSMTPAddressException"
      [] outcome = "SMTPServerDisconnected" -> None
      [] outcome = "sent" -> None
      [] OTHER -> outcome


\* ------------------------------------------------- language_processor.py
\* A summary is a sequence of tokens.  A token stands for the characters it
\* is written with; the patterns of the extractors tell tokens apart by
\* their class only: whitespace, the characters of [\$\d\.], newline (which
\* . does not match without DOTALL), and the literals of the patterns.
Whitespace == {" ", "\n"}
NumberTokens == {"5", "13", "20", "40", "45", "2024"}
RateTokens == {"$", ".", "..."} \cup NumberTokens

\* The greatest and the least of a non-empty set of positions, by counting.
Max(S) == Cardinality(UNION {1..j : j \in S})
Min(S) == Cardinality({i \in UNION {1..j : j \in S} : \A j \in S : i <= j})

\* Whether literal lit stands in s at position i.
StartsAt(s, i, lit) ==
    /\ i + Len(lit) - 1 <= Len(s)
    /\ SubSeq(s, i, i + Len(lit) - 1) = lit

\* The end of the longest run of tokens of a class that starts at position i
\* of s (i - 1 when s[i] is not of the class).
RunEnd(s, i, class) ==
    Max({j \in (i - 1)..Len(s) : \A k \in i..j : s[k] \in class})

\* get_hourly_range: re.search of  Hourly Range</b>: ([\$\d\.]+)-([\$\d\.]+) ;
\* found = FALSE stands for the pair (None, None).
get_hourly_range(summary) ==
    LET lit == <<"Hourly Range", "</b>", ":", " ">>
        LowEnd(p) == RunEnd(summary, p + 4, RateTokens)
        HighEnd(p) == RunEnd(summary, LowEnd(p) + 2, RateTokens)
        matches == {p \in 1..Len(summary) :
                      /\ StartsAt(summary, p, lit)
                      /\ LowEnd(p) >= p + 4
                      /\ LowEnd(p) + 1 <= Len(summary)
                      /\ summary[LowEnd(p) + 1] = "-"
                      /\ HighEnd(p) >= LowEnd(p) + 2} IN
    IF matches # {}
    THEN LET p == Min(matches) IN
         [found |-> TRUE,
          low |-> SubSeq(summary, p + 4, LowEnd(p)),
          high |-> SubSeq(summary, LowEnd(p) + 2, HighEnd(p))]
    ELSE [found |-> FALSE, low |-> <<>>, high |-> <<>>]

\* str.split(sep)
RECURSIVE split(_, _)
split(str, sep) ==
    LET at == {i \in 1..Len(str) : str[i] = sep} IN
    IF at = {} THEN <<str>>
    ELSE <<SubSeq(str, 1, Min(at) - 1)>>
            \o split(SubSeq(str, Min(at) + 1, Len(str)), sep)

\* str.strip()
strip(str) ==
    LET inked == {i \in 1..Len(str) : str[i] \notin Whitespace} IN
    IF inked = {} THEN <<>> ELSE SubSeq(str, Min(inked), Max(inked))

\* sep.join(parts)
RECURSIVE join(_, _)
join(sep, parts) ==
    IF Len(parts) = 0 THEN <<>>
    ELSE IF Len(parts) = 1 THEN parts[1]
    ELSE parts[1] \o sep \o join(sep, Tail(parts))

\* get_skills: re.search of  <b>Skills<\/b>:(.*?)<br \/>  with DOTALL, the
\* group split on commas, each part stripped, the parts joined with ', ';
\* found = FALSE stands for None.
get_skills(summary) ==
    LET lit == <<"<b>", "Skills", "</b>", ":">>
        Breaks(p) == {e \in (p + 4)..Len(summary) : summary[e] = "<br />"}
        matches == {p \in 1..Len(summary) :
                      StartsAt(summary, p, lit) /\ Breaks(p) # {}} IN
    IF matches # {}
    THEN LET p == Min(matches)
             skills_str == SubSeq(summary, p + 4, Min(Breaks(p)) - 1)
             parts == split(skills_str, ",")
             skills == [i \in 1..Len(parts) |-> strip(parts[i])] IN
         [found |-> TRUE, skills |-> join(<<",", " ">>, skills)]
    ELSE [found |-> FALSE, skills |-> <<>>]

\* The tokens strptime reads as %B, %d, %Y, %H and %M, and their values.
Months == {"January"}
Value(token) ==
    CASE token = "January" -> 1
      [] token = "5" -> 5
      [] token = "13" -> 13
      [] token = "20" -> 20
      [] token = "40" -> 40
      [] token = "45" -> 45
      [] token = "2024" -> 2024
      [] OTHER -> 0 - 1
Days == {t \in NumberTokens : Value(t) >= 1 /\ Value(t) <= 31}
Years == {t \in NumberTokens : Value(t) >= 1000}
Hours == {t \in NumberTokens : Value(t) <= 23}
Minutes == {t \in NumberTokens : Value(t) <= 59}

\* A text with every run of whitespace replaced by one blank (a blank of a
\* strptime format matches any run of whitespace).
RECURSIVE collapse(_)
collapse(str) ==
    IF str = <<>> THEN <<>>
    ELSE IF Head(str) \in Whitespace
    THEN <<" ">> \o collapse(SubSeq(str, RunEnd(str, 1, Whitespace) + 1, Len(str)))
    ELSE <<Head(str)>> \o collapse(Tail(str))

\* datetime.strptime(date, "%B %d, %Y %H:%M"): year, month, day, hour and
\* minute, or ValueError when the text is not of the format.
strptime(date) ==
    LET d == collapse(date) IN
    IF /\ Len(d) = 10
       /\ d[1] \in Months /\ d[2] = " " /\ d[3] \in Days /\ d[4] = ","
       /\ d[5] = " " /\ d[6] \in Years /\ d[7] = " " /\ d[8] \in Hours
       /\ d[9] = ":" /\ d[10] \in Minutes
    THEN [raised |-> None,
          date |-> <<Value(d[6]), Value(d[1]), Value(d[3]), Value(d[8]), Value(d[10])>>]
    ELSE [raised |-> "ValueError", date |-> <<>>]

\* get_posted_on_timestamp: re.search of  <b>Posted On</b>:\s+(.*?)\s+UTC ,
\* the group parsed by strptime and localized to UTC (a date stands for the
\* UTC time it names).  found = FALSE stands for None; raised is the
\* exception that leaves the function, None when it returns.
\* A match is the position p of the literal, the start g of the group after
\* a run of whitespace and the end e of the group, a run of whitespace and
\* UTC following it; the search takes the leftmost p, \s+ the longest run
\* and the lazy group the shortest text that lead to a match.
get_posted_on_timestamp(summary) ==
    LET lit == <<"<b>", "Posted On", "</b>", ":">>
        n == Len(summary)
        UtcAfter(e) ==
            \E k \in (e + 1)..(n - 1) :
                /\ \A i \in (e + 1)..k : summary[i] \in Whitespace
                /\ summary[k + 1] = "UTC"
        Ends(g) ==
            {e \in (g - 1)..n :
                (\A i \in g..e : summary[i] # "\n") /\ UtcAfter(e)}
        Groups(p) ==
            {g \in (p + 5)..(n + 1) :
                (\A i \in (p + 4)..(g - 1) : summary[i] \in Whitespace)
                /\ Ends(g) # {}}
        matches == {p \in 1..n : StartsAt(summary, p, lit) /\ Groups(p) # {}} IN
    IF matches # {}
    THEN LET p == Min(matches)
             g == Max(Groups(p))
             e == Min(Ends(g))
             date_obj == strptime(SubSeq(summary, g, e)) IN
         [raised |-> date_obj.raised, found |-> TRUE, date |-> date_obj.date]
    ELSE [raised |-> None, found |-> FALSE, date |-> <<>>]

\* The summaries of the entries the feeds carry: one with a well-formed
\* 'Posted On' date, one without the marker, one whose marker is followed
\* by a text that is no date.
SummaryDated ==
    <<"<b>", "Posted On", "</b>", ":", " ",
      "January", " ", "5", ",", " ", "2024", " ", "13", ":", "45", " ", "UTC">>
SummaryUndated == <<"...">>
SummaryBadDate == <<"<b>", "Posted On", "</b>", ":", " ", "soon", " ", "UTC">>
Summaries == {SummaryDated, SummaryUndated, SummaryBadDate}

\* get_posted_on_timestamp on the summaries of the feeds.
posted_on == [summary \in Summaries |-> get_posted_on_timestamp(summary)]

\* ------------------------------------------------- what a fetch can return
RawEntries == [link : EntryUrls, summary : Summaries]

\* _fetch_entries_http: None on a transport failure, else the response
\* text: empty, or a document carrying the entries feedparser finds in it
\* (none for a document that is no feed).
Responses ==
    { [kind |-> "None", entries |-> <<>>],
      [kind |-> "empty", entries |-> <<>>] }
    \cup { [kind |-> "text", entries |-> es] : es \in SeqsUpTo(RawEntries, MaxBatch) }

\* What a fetch brought: no response, a response without entries, entries.
Fetched(response_text) ==
    IF response_text.kind = "None" THEN "failed"
    ELSE IF response_text.entries = <<>> THEN "nothing" ELSE "entries"

\* `not response_text`
Falsy(response_text) == response_text.kind \in {"None", "empty"}

\* feedparser.parse: what the call can end in, the entries of the document
\* or an exception.  feedparser is not part of the repository and its
\* releases differ on a None argument: 5.x parses it to an empty result, 6.x
\* raises AttributeError (None has no encode).
feedparser_parse(response_text) ==
    IF response_text.kind = "None"
    THEN { [raised |-> "AttributeError", entries |-> <<>>],
           [raised |-> None, entries |-> <<>>] }
    ELSE { [raised |-> None, entries |-> response_text.entries] }

\* _get_entries without the check of the number of entries on a first fetch.
get_entries_unchecked(response_text, first_fetch) ==
    IF Falsy(response_text) /\ first_fetch
    THEN { [raised |-> "RSSFeedException", entries |-> <<>>] }
    ELSE feedparser_parse(response_text)

\* FeedManager._get_entries: what the call can end in.
get_entries(response_text, first_fetch) ==
    IF Falsy(response_text) /\ first_fetch
    THEN { [raised |-> "RSSFeedException", entries |-> <<>>] }
    ELSE { IF parsed_feed.raised = None /\ Len(parsed_feed.entries) < 1 /\ first_fetch
           THEN [raised |-> "RSSFeedException", entries |-> <<>>]
           ELSE parsed_feed :
             parsed_feed \in feedparser_parse(response_text) }

\* ------------------------------------------------------------- the state
VARIABLES
    now,                 \* the UTC clock, in ticks
    environ,             \* os.environ: the names set, the value of EMAIL_USERNAME
    startup_error,       \* the exception that ended the startup, None so far
    to_address,          \* FeedManager._to_address
    extract_keywords,    \* FeedManager._extract_keywords
    db_feeds,            \* table rss_feed: url of each row -> its last_checked_timestamp
    db_entries,          \* table rss_feed_entry: its rows
    feeds,               \* FeedManager._feeds
    existing_feed_urls,  \* FeedManager._existing_feed_urls
    pc,                  \* where run_feed_loop stands
    ready_feeds,         \* ready_feeds of the cycle under way
    task,                \* the feed tasks handed to asyncio.gather
    max_wait_time,       \* max_wait_time of the last cycle
    wake_at,             \* when the asyncio.sleep under way ends
    loop_error,          \* the exception that left run_feed_loop, None so far
    html_summary,        \* the summary of a direct call of the extractors
    extracted,           \* what the extractors returned for it
    last                 \* the last call of add_new_feed or _send_email: what its
                         \* fetch brought, how it ended, the batch it sent
                         \* (of add_new_feed: the links it fetched)

vars == <<now, environ, startup_error, to_address, extract_keywords, db_feeds,
          db_entries, feeds, existing_feed_urls, pc, ready_feeds, task,
          max_wait_time, wake_at, loop_error, html_summary, extracted, last>>

\* What the construction of the FeedManager fixes for the run.
setup == <<environ, to_address, extract_keywords>>

\* A direct call of the extractors of language_processor.py.
extractor_call == <<html_summary, extracted>>

\* ----------------------------------------------------------- database.py
\* The NULL of a DateTime column, the None of a timestamp.
NULL == <<>>

\* Database.__init__ on the environment env: the exception it raises, None
\* when it returns.
Database_init(env) ==
    IF "SQLITE_PATH" \notin env.names
    THEN "MissingCredentialsException"
    ELSE None

\* RSSFeedEntry with a column default of True for emailed.
RSSFeedEntry_sent(url, rss_feed, posted_on_timestamp, keywords) ==
    [url |-> url, rss_feed |-> rss_feed, posted_on_timestamp |-> posted_on_timestamp,
     keywords |-> keywords, emailed |-> TRUE]

\* RSSFeedEntry(...), emailed taking its column default on insert.
RSSFeedEntry(url, rss_feed, posted_on_timestamp, keywords) ==
    [url |-> url, rss_feed |-> rss_feed, posted_on_timestamp |-> posted_on_timestamp,
     keywords |-> keywords, emailed |-> FALSE]

Urls(entries) == {entries[i].url : i \in 1..Len(entries)}

\* The constraints of table rss_feed_entry on the rows of one commit:
\* url unique, posted_on_timestamp not null.
ConstraintsHold(rows, entries) ==
    /\ \A i \in 1..Len(entries) :
          /\ \A row \in rows : row.url # entries[i].url
          /\ entries[i].posted_on_timestamp # NULL
    /\ \A i, j \in 1..Len(entries) :
          i # j => entries[i].url # entries[j].url

\* insert_entries without its commit: the call returns, the table is as it
\* was.
insert_entries_uncommitted(entries) ==
    [raised |-> None, rows |-> db_entries]

\* Database.insert_entries: the rows after the commit, or IntegrityError
\* with the transaction rolled back.
insert_entries(entries) ==
    IF ConstraintsHold(db_entries, entries)
    THEN [raised |-> None, rows |-> db_entries \cup Range(entries)]
    ELSE [raised |-> "IntegrityError", rows |-> db_entries]

\* get_unemailed_entries without its filter on emailed.
get_unemailed_entries_all == db_entries

\* Database.get_unemailed_entries (the order of the result is not modelled).
get_unemailed_entries == {row \in db_entries : row.emailed = FALSE}

\* update_entries_emailed without its commit: no row is marked.
update_entries_emailed_uncommitted(entries) == db_entries

\* Database.update_entries_emailed
update_entries_emailed(entries) ==
    {IF row \in entries THEN [row EXCEPT !.emailed = TRUE] ELSE row :
        row \in db_entries}

\* update_feed_last_checked stamping every row of rss_feed.
update_all_feeds_last_checked(rss_feed) ==
    [u \in DOMAIN db_feeds |-> now]

\* Database.update_feed_last_checked
update_feed_last_checked(rss_feed) ==
    [u \in DOMAIN db_feeds |-> IF u = rss_feed THEN now ELSE db_feeds[u]]

\* Database.add_feed: the url column of rss_feed is unique;
\* last_checked_timestamp takes its default, utcnow.
add_feed(url) ==
    IF url \in DOMAIN db_feeds
    THEN [raised |-> "IntegrityError", table |-> db_feeds]
    ELSE [raised |-> None,
          table |-> [u \in DOMAIN db_feeds \cup {url} |->
                        IF u = url THEN now ELSE db_feeds[u]]]

\* ----------------------------------------------- feed_processor.py, ingestion
\* NaturalLanguageExtractor.extract_keywords joined with ', ': the keywords
\* RAKE finds in the text, whatever they are, or the exception of a call
\* that fails (LookupError, when a resource of nltk is missing).
extract_keywords_call(raises) ==
    IF raises
    THEN [raised |-> "LookupError", keywords |-> ""]
    ELSE [raised |-> None, keywords |-> "keywords"]

\* FeedManager._process_single_entry from the results of its extractors on:
\* the row it builds and what it ends in.  It returns None for a known
\* url before it looks at anything else, raises the exception an extractor
\* raised, and returns the row otherwise.
new_entry(entry, source, known, posted_on_timestamp, extraction) ==
    LET processed_entry ==
            RSSFeedEntry(entry.link, source,
                         IF posted_on_timestamp.found
                         THEN posted_on_timestamp.date ELSE NULL,
                         extraction.keywords) IN
    IF known
    THEN [raised |-> None, returned |-> None, row |-> processed_entry]
    ELSE IF posted_on_timestamp.raised # None
         THEN [raised |-> posted_on_timestamp.raised, returned |-> None,
               row |-> processed_entry]
         ELSE IF extraction.raised # None
         THEN [raised |-> extraction.raised, returned |-> None,
               row |-> processed_entry]
         ELSE [raised |-> None, returned |-> "row", row |-> processed_entry]

\* _process_single_entry without its look into _existing_feed_urls: every
\* entry becomes a row.
process_single_entry_unchecked(entry, source, nlp_raises) ==
    new_entry(entry, source, FALSE, posted_on[entry.summary],
              IF extract_keywords
              THEN extract_keywords_call(nlp_raises)
              ELSE [raised |-> None, keywords |-> ""])

\* FeedManager._process_single_entry: returns None for a known url, returns
\* the new row otherwise, raises ValueError when the date of the summary
\* does not parse and the exception of extract_keywords when that call, made
\* if _extract_keywords is set, raises (nlp_raises).
process_single_entry(entry, source, nlp_raises) ==
    new_entry(entry, source, entry.link \in existing_feed_urls,
              posted_on[entry.summary],
              IF extract_keywords
              THEN extract_keywords_call(nlp_raises)
              ELSE [raised |-> None, keywords |-> ""])

\* The loop of _process_entries appending what _process_single_entry
\* built whether or not the url was known.
RECURSIVE process_loop_unfiltered(_, _, _, _, _)
process_loop_unfiltered(entries, i, source, processed_entries, nlp) ==
    IF i > Len(entries)
    THEN [raised |-> None, processed |-> processed_entries]
    ELSE LET processed_entry == process_single_entry(entries[i], source, nlp = 1) IN
         IF processed_entry.raised # None
         THEN [raised |-> processed_entry.raised, processed |-> <<>>]
         ELSE process_loop_unfiltered(entries, i + 1, source,
                                      Append(processed_entries, processed_entry.row),
                                      nlp)

\* The loop of FeedManager._process_entries from entry i on, where the
\* nlp-th of the calls of extract_keywords still to come raises (none of
\* them if nlp = 0).
RECURSIVE process_loop(_, _, _, _, _)
process_loop(entries, i, source, processed_entries, nlp) ==
    IF i > Len(entries)
    THEN [raised |-> None, processed |-> processed_entries]
    ELSE LET processed_entry == process_single_entry(entries[i], source, nlp = 1) IN
         IF processed_entry.raised # None
         THEN [raised |-> processed_entry.raised, processed |-> <<>>]
         ELSE IF processed_entry.returned = None
              THEN process_loop(entries, i + 1, source, processed_entries, nlp)
              ELSE process_loop(entries, i + 1, source,
                                Append(processed_entries, processed_entry.row),
                                IF extract_keywords /\ nlp > 0 THEN nlp - 1 ELSE nlp)

\* _add_entries_to_db_and_existing_urls without its loop over the inserted
\* entries.
add_entries_to_db_forgetting_urls(processed_entries) ==
    LET ins == IF Len(processed_entries) > 0
               THEN insert_entries(processed_entries)
               ELSE [raised |-> None, rows |-> db_entries] IN
    [raised |-> ins.raised, rows |-> ins.rows, urls |-> existing_feed_urls]

\* FeedManager._add_entries_to_db_and_existing_urls
add_entries_to_db_and_existing_urls(processed_entries) ==
    LET ins == IF Len(processed_entries) > 0
               THEN insert_entries(processed_entries)
               ELSE [raised |-> None, rows |-> db_entries] IN
    IF ins.raised # None
    THEN [raised |-> ins.raised, rows |-> db_entries, urls |-> existing_feed_urls]
    ELSE [raised |-> None, rows |-> ins.rows,
          urls |-> existing_feed_urls \cup Urls(processed_entries)]

\* _process_entries returning at once, as it does for entries None.
process_entries_skipped(source, entries, nlp) ==
    [raised |-> None, rows |-> db_entries, urls |-> existing_feed_urls]

\* FeedManager._process_entries: the exception it ends in (None without),
\* the rows of rss_feed_entry and the dedup set it leaves.
process_entries(source, entries, nlp) ==
    LET p == process_loop(entries, 1, source, <<>>, nlp) IN
    IF p.raised # None
    THEN [raised |-> p.raised, rows |-> db_entries, urls |-> existing_feed_urls]
    ELSE add_entries_to_db_and_existing_urls(p.processed)

\* ----------------------------------------------- feed_processor.py, scheduler
\* The comparison of run_feed_loop one second early.
IsDue_early(delta) == delta >= wait_seconds - 1

\* delta >= self._wait_seconds
IsDue(delta) == delta >= wait_seconds

\* The update of max_wait_time with the comparison turned round.
UpdateWait_min(max_wait, wait_time) ==
    IF wait_time < max_wait THEN wait_time ELSE max_wait

\* if wait_time > max_wait_time: max_wait_time = wait_time
UpdateWait(max_wait, wait_time) ==
    IF wait_time > max_wait THEN wait_time ELSE max_wait

\* The for loop of run_feed_loop looking at the first feed of the list only.
collect_due_head(i, ready, max_wait) ==
    IF feeds = <<>>
    THEN [ready_feeds |-> <<>>, max_wait_time |-> 0]
    ELSE LET delta == now - db_feeds[feeds[1]] IN
         IF IsDue(delta)
         THEN [ready_feeds |-> <<feeds[1]>>, max_wait_time |-> 0]
         ELSE [ready_feeds |-> <<>>, max_wait_time |-> wait_seconds - delta]

\* The for loop of run_feed_loop over self._feeds from position i on, with
\* the ready_feeds and max_wait_time accumulated so far.
RECURSIVE collect_due(_, _, _)
collect_due(i, ready, max_wait) ==
    IF i > Len(feeds)
    THEN [ready_feeds |-> ready, max_wait_time |-> max_wait]
    ELSE LET rss_feed == feeds[i]
             delta == now - db_feeds[rss_feed]
             wait_time == wait_seconds - delta IN
         IF IsDue(delta)
         THEN collect_due(i + 1, Append(ready, rss_feed), max_wait)
         ELSE collect_due(i + 1, ready, UpdateWait(max_wait, wait_time))

\* A wait that returns at the first task to finish.
GatherDone_first(tasks) == \E f \in Range(ready_feeds) : tasks[f] = "done"

\* asyncio.gather returns once every task it was given has finished.
GatherDone(tasks) == \A f \in Range(ready_feeds) : tasks[f] = "done"

\* Email.__init__: raises InvalidSMTPAddressException for an invalid to_address.
Email_init_raises == ~validate_email(to_address)

\* _send_email without its return on an empty list.
send_email_unguarded(processed_entries, outcome) ==
    LET batch == {row.url : row \in processed_entries} IN
    IF Email_init_raises
    THEN [raised |-> "InvalidSMTPAddressException", result |-> "invalid to_address",
          connected |-> FALSE, calls |-> <<>>, batch |-> batch, rows |-> db_entries]
    ELSE [raised |-> Email_send(outcome), result |-> outcome, connected |-> TRUE,
          calls |-> Email_send_calls(outcome), batch |-> batch,
          rows |-> IF Email_send(outcome) # None THEN db_entries
                   ELSE update_entries_emailed(processed_entries)]

\* FeedManager._send_email on the rows read by get_unemailed_entries, where
\* outcome is what the SMTP conversation ends in if it takes place.
send_email(processed_entries, outcome) ==
    LET batch == {row.url : row \in processed_entries} IN
    IF Cardinality(processed_entries) < 1
    THEN [raised |-> None, result |-> "empty", connected |-> FALSE,
          calls |-> <<>>, batch |-> batch, rows |-> db_entries]
    ELSE IF Email_init_raises
    THEN [raised |-> "InvalidSMTPAddressException", result |-> "invalid to_address",
          connected |-> FALSE, calls |-> <<>>, batch |-> batch, rows |-> db_entries]
    ELSE IF Email_send(outcome) # None
    THEN [raised |-> Email_send(outcome), result |-> outcome, connected |-> TRUE,
          calls |-> Email_send_calls(outcome), batch |-> batch, rows |-> db_entries]
    ELSE [raised |-> None, result |-> outcome, connected |-> TRUE,
          calls |-> Email_send_calls(outcome), batch |-> batch,
          rows |-> update_entries_emailed(processed_entries)]

\* Lines 298-304 of run_feed_loop: read the unsent rows, send, start the
\* sleep of max_wait seconds; an exception of _send_email leaves the loop.
\* The cycle over, its ready_feeds and tasks are gone.
NotifyAndSleep(outcome, max_wait) ==
    LET sent == send_email(get_unemailed_entries, outcome) IN
    /\ db_entries' = sent.rows
    /\ last' = [op |-> "_send_email", fetched |-> "none", result |-> sent.result,
                connected |-> sent.connected, calls |-> sent.calls,
                batch |-> sent.batch]
    /\ pc' = IF sent.raised # None THEN "terminated" ELSE "sleeping"
    /\ loop_error' = sent.raised
    /\ wake_at' = IF sent.raised # None THEN 0 ELSE now + max_wait
    /\ ready_feeds' = <<>>
    /\ task' = [f \in FeedUrls |-> "none"]

\* ------------------------------------------------------------ the actions
\* The storage a process starts on, left by earlier runs of the program:
\* empty, or feed1 with one entry.
InitFeedTables ==
    { [u \in S |-> 0 - wait_seconds] : S \in {{}, {"feed1"}} }

InitEntryTables(table) ==
    {{}} \cup
    { {RSSFeedEntry("job1", u, posted_on[SummaryDated].date, "")} :
         u \in DOMAIN table }

\* No direct call of the extractors has been made.
NotCalled ==
    [called |-> FALSE,
     hourly_range |-> [found |-> FALSE, low |-> <<>>, high |-> <<>>],
     skills |-> [found |-> FALSE, skills |-> <<>>],
     posted_on_timestamp |-> [raised |-> None, found |-> FALSE, date |-> <<>>]]

\* The environments a process is started in: any of the five names may be
\* missing; EMAIL_USERNAME, where set, holds an address.
Environments ==
    [names : SUBSET ({"SQLITE_PATH"} \cup EmailNames), EMAIL_USERNAME : ToAddresses]

\* The state of a process before the first line of its startup, with the
\* arguments its FeedManager is going to be constructed with
\* (extract_keywords at its default).
InitWith(keywords) ==
    /\ now = 0
    /\ environ \in Environments
    /\ startup_error = None
    /\ to_address \in ToAddresses
    /\ extract_keywords = keywords
    /\ db_feeds \in InitFeedTables
    /\ db_entries \in InitEntryTables(db_feeds)
    /\ feeds = <<>>
    /\ existing_feed_urls = {}
    /\ pc = "start"
    /\ ready_feeds = <<>>
    /\ task = [f \in FeedUrls |-> "none"]
    /\ max_wait_time = 0
    /\ wake_at = 0
    /\ loop_error = None
    /\ html_summary = <<>>
    /\ extracted = NotCalled
    /\ last = [op |-> "none", fetched |-> "none", result |-> "none",
               connected |-> FALSE, calls |-> <<>>, batch |-> {}]

Init == InitWith(FALSE)

\* The steps of the startup: Database(), then FeedManager(db, to_address,
\* extract_keywords), whose __init__ ends in EmailAccount().  An exception
\* of either ends the process.
StartupDone == pc \notin {"start", "database", "failed"}

DatabaseInit ==
    /\ pc = "start"
    /\ startup_error' = Database_init(environ)
    /\ pc' = IF startup_error' = None THEN "database" ELSE "failed"
    /\ UNCHANGED <<now, setup, extractor_call, db_feeds, db_entries, feeds,
                   existing_feed_urls,
                   ready_feeds, task, max_wait_time, wake_at, loop_error, last>>

FeedManagerInit ==
    /\ pc = "database"
    /\ feeds' = <<>>
    /\ existing_feed_urls' = {}
    /\ startup_error' = EmailAccount_read_credentials(environ)
    /\ pc' = IF startup_error' = None THEN "constructed" ELSE "failed"
    /\ UNCHANGED <<now, setup, extractor_call, db_feeds, db_entries,
                   ready_feeds, task,
                   max_wait_time, wake_at, loop_error, last>>

\* Which of the calls of extract_keywords of one ingestion raises: none
\* (0), or the first, the second, ...; without keyword extraction there is
\* no call.
NlpFailures == IF extract_keywords THEN 0..MaxBatch ELSE {0}

\* Time passes.
Tick ==
    /\ now < MaxTime
    /\ StartupDone
    /\ pc \notin {"constructed", "terminated"}
    /\ now' = now + 1
    /\ UNCHANGED <<setup, extractor_call, startup_error, db_feeds,
                   db_entries, feeds, existing_feed_urls,
                   pc, ready_feeds, task, max_wait_time, wake_at, loop_error, last>>

\* The feeds of table rss_feed as the list get_all_feeds returns.
RECURSIVE AsList(_)
AsList(S) ==
    IF S = {} THEN <<>>
    ELSE LET u == CHOOSE v \in S : TRUE IN <<u>> \o AsList(S \ {u})

\* FeedManager._load_existing_feeds, run once at startup before any feed
\* is added or polled.
LoadExistingFeeds ==
    /\ pc = "constructed"
    /\ feeds' = AsList(DOMAIN db_feeds)
    /\ existing_feed_urls' = existing_feed_urls \cup {row.url : row \in db_entries}
    /\ pc' = "loaded"
    /\ UNCHANGED <<now, setup, extractor_call, startup_error, db_feeds,
                   db_entries, ready_feeds, task,
                   max_wait_time, wake_at, loop_error, last>>

\* The responses to call add_new_feed of url with.  For a url that table
\* rss_feed holds, add_feed raises before the fetched entries are looked at,
\* and the call depends on its response only through Fetched: one response
\* of each kind stands for all.
KnownFeedResponses ==
    { [kind |-> "None", entries |-> <<>>],
      [kind |-> "empty", entries |-> <<>>],
      [kind |-> "text", entries |-> <<>>],
      [kind |-> "text",
       entries |-> <<[link |-> "job1", summary |-> SummaryDated]>>] }

AddResponses(url) ==
    IF url \in DOMAIN db_feeds THEN KnownFeedResponses ELSE Responses

\* FeedManager.add_new_feed(url), whose fetch returned response.  It runs
\* while run_feed_loop is not running or is suspended in an await.
AddNewFeed(url, response) ==
    /\ pc \in {"loaded", "fetching", "notifying", "sleeping"}
    /\ response \in AddResponses(url)
    /\ \E got \in get_entries(response, TRUE), nlp \in NlpFailures :
       LET added == add_feed(url)
           p == process_entries(url, got.entries, nlp)
           raised == IF got.raised # None THEN got.raised
                     ELSE IF added.raised # None THEN added.raised
                     ELSE p.raised IN
       /\ IF got.raised # None \/ added.raised # None
          THEN UNCHANGED <<db_feeds, feeds, db_entries, existing_feed_urls>>
          ELSE /\ db_feeds' = added.table
               /\ feeds' = Append(feeds, url)
               /\ db_entries' = p.rows
               /\ existing_feed_urls' = p.urls
       /\ last' = [op |-> "add_new_feed", fetched |-> Fetched(response),
                   result |-> raised, connected |-> FALSE, calls |-> <<>>,
                   batch |-> {response.entries[i].link :
                                 i \in 1..Len(response.entries)}]
    /\ UNCHANGED <<now, setup, extractor_call, startup_error, pc,
                   ready_feeds, task, max_wait_time, wake_at,
                   loop_error>>

\* The start of a cycle of run_feed_loop: at the call of run_feed_loop, or
\* when the sleep of the previous cycle has ended.
CycleStarts ==
    \/ pc = "loaded"
    \/ pc = "sleeping" /\ now >= wake_at

\* A cycle with feeds due: lines 277-296, up to the await of the gather.
Dispatch ==
    /\ CycleStarts
    /\ LET c == collect_due(1, <<>>, 0) IN
       /\ c.ready_feeds # <<>>
       /\ ready_feeds' = c.ready_feeds
       /\ max_wait_time' = c.max_wait_time
       /\ task' = [f \in FeedUrls |->
                     IF f \in Range(c.ready_feeds) THEN "inflight" ELSE "none"]
    /\ pc' = "fetching"
    /\ wake_at' = 0
    /\ UNCHANGED <<now, setup, extractor_call, startup_error, db_feeds,
                   db_entries, feeds, existing_feed_urls,
                   loop_error, last>>

\* A cycle with no feed due: the gather of no task does not suspend, the
\* cycle runs through to its sleep.
IdleCycle(outcome) ==
    /\ CycleStarts
    /\ LET c == collect_due(1, <<>>, 0) IN
       /\ c.ready_feeds = <<>>
       /\ max_wait_time' = c.max_wait_time
       /\ NotifyAndSleep(outcome, c.max_wait_time)
    /\ UNCHANGED <<now, setup, extractor_call, startup_error, db_feeds,
                   feeds, existing_feed_urls>>

\* FeedManager._get_and_process_feed(rss_feed), from the return of its fetch
\* with response to its end.  An exception ends the task, and the gather
\* passes it on to run_feed_loop, which it ends, and the process with it.
FeedTask(rss_feed, response) ==
    /\ pc = "fetching"
    /\ task[rss_feed] = "inflight"
    /\ \E got \in get_entries(response, FALSE), nlp \in NlpFailures :
       LET p == process_entries(rss_feed, got.entries, nlp)
           raised == IF got.raised # None THEN got.raised ELSE p.raised IN
       IF raised # None
       THEN /\ task' = [task EXCEPT ![rss_feed] = "raised"]
            /\ pc' = "terminated"
            /\ loop_error' = raised
            /\ UNCHANGED <<db_feeds, db_entries, existing_feed_urls>>
       ELSE /\ db_entries' = p.rows
            /\ existing_feed_urls' = p.urls
            /\ db_feeds' = update_feed_last_checked(rss_feed)
            /\ task' = [task EXCEPT ![rss_feed] = "done"]
            /\ pc' = IF GatherDone(task') THEN "notifying" ELSE pc
            /\ UNCHANGED loop_error
    /\ UNCHANGED <<now, setup, extractor_call, startup_error, feeds,
                   ready_feeds, max_wait_time, wake_at, last>>

\* The notification step of a cycle whose gather has returned.
Notify(outcome) ==
    /\ pc = "notifying"
    /\ NotifyAndSleep(outcome, max_wait_time)
    /\ UNCHANGED <<now, setup, extractor_call, startup_error, db_feeds,
                   feeds, existing_feed_urls, max_wait_time>>

Next ==
    \/ Tick
    \/ DatabaseInit
    \/ FeedManagerInit
    \/ LoadExistingFeeds
    \/ \E url \in FeedUrls, response \in Responses : AddNewFeed(url, response)
    \/ Dispatch
    \/ \E outcome \in SmtpOutcomes : IdleCycle(outcome)
    \/ \E rss_feed \in FeedUrls, response \in Responses : FeedTask(rss_feed, response)
    \/ \E outcome \in SmtpOutcomes : Notify(outcome)

Spec == Init /\ [][Next]_vars

\* Time passes beyond MaxTime.  The loop reads the clock only to compare it
\* with the stamps of the feeds and with the end of its sleep, and of an
\* elapsed time beyond wait_seconds only that it is beyond: the passing of
\* a second at the bound is every stamp and the end of the sleep moving a
\* second into the past, the stamps no further than wait_seconds.
Rebase ==
    /\ now = MaxTime
    /\ StartupDone
    /\ pc \notin {"constructed", "terminated"}
    /\ db_feeds' = [u \in DOMAIN db_feeds |->
                      IF db_feeds[u] - 1 < now - wait_seconds
                      THEN now - wait_seconds ELSE db_feeds[u] - 1]
    /\ wake_at' = IF wake_at > 0 THEN wake_at - 1 ELSE 0
    /\ UNCHANGED <<now, setup, extractor_call, startup_error, db_entries,
                   feeds, existing_feed_urls, pc, ready_feeds, task,
                   max_wait_time, loop_error, last>>

NextLive == Next \/ Rebase

\* The scheduling of the event loop: time passes, a cycle that can start
\* starts, a gather that has returned is followed by the notification
\* step.  Whether a fetch returns is up to the network, and add_new_feed
\* is called or not.
Fairness ==
    /\ WF_vars(Tick \/ Rebase)
    /\ WF_vars(Dispatch \/ \E outcome \in SmtpOutcomes : IdleCycle(outcome))
    /\ WF_vars(\E outcome \in SmtpOutcomes : Notify(outcome))

\* The program from its start on, with time unbounded and the scheduling
\* of the event loop.
SpecLive == Init /\ [][NextLive]_vars /\ Fairness

\* The program run with extract_keywords=True.
InitKeywords == InitWith(TRUE)

SpecKeywords == InitKeywords /\ [][Next]_vars

\* ------------------------------------------- the extractors, called directly
\* Summaries to call the extractors on: a part for each of the three fields,
\* well-formed, missing or malformed, with other text around.
HourlyParts ==
    { <<"<b>", "Hourly Range", "</b>", ":", " ", "$", "20", "-", "$", "40">>,
      <<"<b>", "Hourly Range", "</b>", ":", " ", "20", ".", "5", "-", "45">>,
      <<"<b>", "Hourly Range", "</b>", ":", " ", "$", "20">>,
      <<>> }
SkillsParts ==
    { <<"<b>", "Skills", "</b>", ":", " ", "Go", ",", " ", "Rust", ",", " ", "C++",
        " ", "<br/>">>,
      <<"<b>", "Skills", "</b>", ":", " ", "Go", ",", " ", "Rust", ",", " ", "C++",
        " ", "<br />">>,
      <<"<b>", "Skills", "</b>", ":", " ", "\n", "Go", " ", ",", "Rust", "<br />">>,
      <<>> }
PostedParts ==
    { SummaryDated,
      SummaryBadDate,
      <<"<b>", "Posted On", "</b>", ":", " ", " ", "UTC">>,
      <<"<b>", "Posted On", "</b>", ":", " ", "\n", "January", " ", " ", "13", ",",
        " ", "2024", " ", "5", ":", "5", " ", "\n", "UTC">>,
      <<>> }
TestSummary(h, s, p) ==
    <<"...", " ">> \o h \o <<" ", "...", " ">> \o s \o <<" ", "...", " ">> \o p
TestSummaries ==
    {TestSummary(h, s, p) : h \in HourlyParts, s \in SkillsParts, p \in PostedParts}

InitExtract ==
    /\ html_summary \in TestSummaries
    /\ extracted = NotCalled
    /\ now = 0
    /\ environ = [names |-> {"SQLITE_PATH"} \cup EmailNames,
                  EMAIL_USERNAME |-> CHOOSE a \in ToAddresses : validate_email(a)]
    /\ startup_error = None
    /\ to_address = CHOOSE a \in ToAddresses : validate_email(a)
    /\ extract_keywords = FALSE
    /\ db_feeds = <<>>
    /\ db_entries = {}
    /\ feeds = <<>>
    /\ existing_feed_urls = {}
    /\ pc = "start"
    /\ ready_feeds = <<>>
    /\ task = [f \in FeedUrls |-> "none"]
    /\ max_wait_time = 0
    /\ wake_at = 0
    /\ loop_error = None
    /\ last = [op |-> "none", fetched |-> "none", result |-> "none",
               connected |-> FALSE, calls |-> <<>>, batch |-> {}]

\* One call of each extractor on the summary.
Extract ==
    /\ extracted.called = FALSE
    /\ extracted' = [called |-> TRUE,
                     hourly_range |-> get_hourly_range(html_summary),
                     skills |-> get_skills(html_summary),
                     posted_on_timestamp |-> get_posted_on_timestamp(html_summary)]
    /\ UNCHANGED <<now, setup, startup_error, html_summary, db_feeds,
                   db_entries,
                   feeds, existing_feed_urls, pc, ready_feeds, task, max_wait_time,
                   wake_at, loop_error, last>>

NextExtract == Extract

SpecExtract == InitExtract /\ [][NextExtract]_vars

\* ------------------------------------------------------- steps, by kind
\* A step of the notification step of a cycle.  Both actions leave
\* "_send_email" in last.op; the first conjunct only spares evaluating them
\* on the other steps.
NotifyStep ==
    /\ last'.op = "_send_email"
    /\ \E outcome \in SmtpOutcomes : Notify(outcome) \/ IdleCycle(outcome)

\* A step that starts a cycle.  Dispatch changes pc and IdleCycle leaves
\* "_send_email" in last.op; the first conjunct only spares evaluating them
\* on the other steps.
CycleStep ==
    /\ pc' # pc \/ last'.op = "_send_email"
    /\ Dispatch \/ \E outcome \in SmtpOutcomes : IdleCycle(outcome)

\* The rows of rss_feed_entry with a given url.
RowsOf(rows, url) == {row \in rows : row.url = url}

\* A fetched document all of whose entries carry a well-formed date.
WellFormed(response) ==
    /\ response.kind = "text"
    /\ \A i \in 1..Len(response.entries) :
          response.entries[i].summary = SummaryDated

\* ------------------------------------------------------------------- C1
\* C1: URL uniqueness.  Whenever a fetched batch of well-formed entries is
\* ingested, by a feed task of the loop or by add_new_feed of a new feed, the
\* ingestion ends without an exception and every url of the batch has exactly
\* one row in storage afterwards, also when the batch carries a url twice.
C1_UrlUniqueness ==
    [][\A url \in FeedUrls, response \in Responses :
          /\ WellFormed(response) /\ FeedTask(url, response)
                => /\ pc' # "terminated"
                   /\ \A i \in 1..Len(response.entries) :
                         Cardinality(RowsOf(db_entries', response.entries[i].link)) = 1
          /\ WellFormed(response) /\ AddNewFeed(url, response)
                                  /\ url \notin DOMAIN db_feeds
                                  /\ response.entries # <<>>
                => /\ last'.result = None
                   /\ \A i \in 1..Len(response.entries) :
                         Cardinality(RowsOf(db_entries', response.entries[i].link)) = 1
      ]_vars

\* ------------------------------------------------------------------- C2
\* C2: a send that ends in a transient connectivity failure leaves the
\* sent-flag of every entry of its batch false, and a sent-flag becomes true
\* only by a send that included the entry and was confirmed successful.
C2_TransientLeavesUnsent ==
    [][/\ NotifyStep /\ last'.result = "SMTPServerDisconnected"
            => \A row \in db_entries :
                  row.url \in last'.batch => row \in db_entries' /\ ~row.emailed
       /\ \A row \in db_entries' :
            row.emailed /\ row \notin db_entries
                => NotifyStep /\ last'.result = "sent" /\ row.url \in last'.batch
      ]_vars

\* ------------------------------------------------------------------- C3
\* The feeds not due at the start of a cycle, and what each has left to wait.
NotDue == {f \in Range(feeds) : now - db_feeds[f] < wait_seconds}
Remaining(f) == wait_seconds - (now - db_feeds[f])

C4_NoEarlyDispatch ==
    \A f \in FeedUrls :
        task[f] = "inflight" => now - db_feeds[f] >= wait_seconds

\* A feed checked or added in this run is dispatched again.
C4_Witness == \E f \in FeedUrls : task[f] = "inflight" /\ db_feeds[f] >= 0

\* ------------------------------------------------------------------- C5
\* C5: the batch of a notification is exactly the entries unsent when
\* storage is read; a successful send sets the sent-flag of every entry of
\* the batch and changes no field of any other entry.
C5_BatchIsUnsent ==
    [][NotifyStep
          => /\ last'.batch = {row.url : row \in {r \in db_entries : ~r.emailed}}
             /\ last'.result = "sent"
                  => db_entries' =
                       {IF row.url \in last'.batch
                        THEN [row EXCEPT !.emailed = TRUE] ELSE row :
                          row \in db_entries}
      ]_vars

\* A successful send while storage held an entry outside the batch.
C5_Witness ==
    /\ last.result = "sent"
    /\ last.batch # {}
    /\ \E row \in db_entries : row.url \notin last.batch /\ row.emailed

\* ------------------------------------------------------------------- C6
\* C6: a feed task of the loop whose fetch failed at transport level still
\* advances the last-checked timestamp of its feed to the current time.
C6_FailedFetchAdvances ==
    [][\A f \in FeedUrls :
          FeedTask(f, [kind |-> "None", entries |-> <<>>])
              => db_feeds'[f] = now /\ pc' # "terminated"
      ]_vars

\* ------------------------------------------------------------------- C7
\* C7: a call of add_new_feed whose fetch fails or yields no entry raises
\* RSSFeedException and leaves storage, the feed list and the dedup set as
\* they were (a call shows as a change of last; one that repeats the call
\* before it to the letter changes nothing at all).
C7_FailedAddLeavesNoTrace ==
    [][(last' # last /\ last'.op = "add_new_feed"
                      /\ last'.fetched \in {"failed", "nothing"})
          => /\ last'.result = "RSSFeedException"
             /\ UNCHANGED <<db_feeds, db_entries, feeds, existing_feed_urls>>
      ]_vars

\* add_new_feed has raised RSSFeedException on a feed without entries.
C7_Witness ==
    /\ last.op = "add_new_feed"
    /\ last.fetched = "nothing"
    /\ last.result = "RSSFeedException"

\* ------------------------------------------------------------------- C8
\* C8: a send that fails on authentication or on an address ends
\* run_feed_loop with the exception and changes no sent-flag, and with an
\* invalid to_address no SMTP connection is opened.
C8_FatalSendEndsLoop ==
    [][NotifyStep
          => /\ last'.result \in {"SMTPAuthenticationError", "SMTPRecipientsRefused",
                                  "invalid to_address"}
                  => /\ pc' = "terminated"
                     /\ loop_error' \in {"InvalidSMTPLoginException",
                                         "InvalidSMTPAddressException"}
                     /\ db_entries' = db_entries
             /\ ~validate_email(to_address) /\ last'.batch # {}
                  => last'.result = "invalid to_address" /\ ~last'.connected
      ]_vars

\* The loop ended by a refused recipient, after the connection was opened.
C8_Witness ==
    /\ pc = "terminated"
    /\ loop_error = "InvalidSMTPAddressException"
    /\ last.result = "SMTPRecipientsRefused"
    /\ last.connected

\* ------------------------------------------------------------------- C9
\* C9: when the notification step is about to run, every feed task
\* dispatched in the cycle has finished and none is in flight.
C9_NotifyAfterJoin ==
    pc = "notifying"
        => \A f \in FeedUrls :
              /\ task[f] # "inflight"
              /\ f \in Range(ready_feeds) => task[f] = "done"

\* Two feeds were dispatched and the notification step is about to run.
C9_Witness == pc = "notifying" /\ Len(ready_feeds) = 2

\* ------------------------------------------------------------------ C10
\* C10: a sent-flag only ever goes from false to true, and only in a
\* notification step that sent; no step removes an entry or changes another
\* field, and an entry new to storage has sent-flag false.
C10_SentFlagAuthority ==
    [][/\ \A row \in db_entries :
            \/ row \in db_entries'
            \/ /\ ~row.emailed
               /\ [row EXCEPT !.emailed = TRUE] \in db_entries'
               /\ NotifyStep
               /\ last'.connected
       /\ \A row \in db_entries' :
            RowsOf(db_entries, row.url) = {} => ~row.emailed
      ]_vars

\* An entry ingested in this run has been sent.
C10_Witness == \E row \in db_entries : row.url = "job2" /\ row.emailed

\* ------------------------------------------------------------------ C11
\* C11: once _load_existing_feeds has seeded the dedup set, every url of a
\* row of storage is in the dedup set whenever an ingestion can decide on an
\* entry: in every state, whatever add_new_feed calls and feed tasks have
\* run and in whatever order.
C11_StorageInDedupSet ==
    pc \in {"loaded", "fetching", "notifying", "sleeping", "terminated"}
        => \A row \in db_entries : row.url \in existing_feed_urls

\* A feed task has ingested an entry, another task of the cycle is still
\* in flight, and add_new_feed has added a feed in between.
C11_Witness ==
    /\ pc = "fetching"
    /\ \E f, g \in FeedUrls : task[f] = "done" /\ task[g] = "inflight"
    /\ \E row \in db_entries : row.url = "job2"
    /\ last.op = "add_new_feed" /\ last.result = None

\* ------------------------------------------------------------------ C12
\* C12: the startup does not get past Database() without SQLITE_PATH, nor
\* past FeedManager() without each of the four EMAIL_ variables or with an
\* EMAIL_USERNAME that is no valid address; it ends in
\* MissingCredentialsException, respectively InvalidSMTPAddressException,
\* and no feed has been loaded, added or polled by then.
C12_MissingConfigPreventsStartup ==
    /\ "SQLITE_PATH" \notin environ.names
          => /\ pc \in {"start", "failed"}
             /\ pc = "failed" => startup_error = "MissingCredentialsException"
    /\ (\E name \in EmailNames : name \notin environ.names)
          => /\ pc \in {"start", "database", "failed"}
             /\ pc = "failed" => startup_error = "MissingCredentialsException"
    /\ ( /\ "SQLITE_PATH" \in environ.names
         /\ \A name \in EmailNames : name \in environ.names
         /\ ~validate_email(environ.EMAIL_USERNAME) )
          => /\ pc \in {"start", "database", "failed"}
             /\ pc = "failed" => startup_error = "InvalidSMTPAddressException"
    /\ pc = "failed"
          => /\ feeds = <<>> /\ existing_feed_urls = {} /\ ready_feeds = <<>>
             /\ \A f \in FeedUrls : task[f] = "none"
             /\ last.op = "none"

\* The startup has ended on an EMAIL_USERNAME that is no address, all five
\* variables being set.
C12_Witness ==
    /\ pc = "failed"
    /\ startup_error = "InvalidSMTPAddressException"
    /\ environ.names = {"SQLITE_PATH"} \cup EmailNames

\* ------------------------------------------------------------------ C13
\* The summary of the example: '... <b>Hourly Range</b>: $20-$40 ...
\* <b>Skills</b>: Go, Rust, C++ <br/> ... <b>Posted On</b>: January 5, 2024
\* 13:45 UTC'.
ExampleSummary ==
    <<"...", " ", "<b>", "Hourly Range", "</b>", ":", " ", "$", "20", "-", "$", "40",
      " ", "...", " ", "<b>", "Skills", "</b>", ":", " ", "Go", ",", " ", "Rust", ",",
      " ", "C++", " ", "<br/>", " ", "...", " ", "<b>", "Posted On", "</b>", ":", " ",
      "January", " ", "5", ",", " ", "2024", " ", "13", ":", "45", " ", "UTC">>

\* C13: on the summary of the example the extractors yield low '$20', high
\* '$40', skills 'Go, Rust, C++' and the posting time 2024-01-05 13:45 UTC.
C13_ExampleExtraction ==
    (html_summary = ExampleSummary /\ extracted.called)
        => /\ extracted.hourly_range =
                 [found |-> TRUE, low |-> <<"$", "20">>, high |-> <<"$", "40">>]
           /\ extracted.skills =
                 [found |-> TRUE,
                  skills |-> <<"Go", ",", " ", "Rust", ",", " ", "C++">>]
           /\ extracted.posted_on_timestamp =
                 [raised |-> None, found |-> TRUE, date |-> <<2024, 1, 5, 13, 45>>]

\* ------------------------------------------------------------------ C14
\* C14: the extractors are total.  On every summary none of them raises; the
\* posting time is absent when the summary has no 'Posted On' marker and
\* when the text after the marker is no date of the format, and the hourly
\* range and the skills are absent when their marker is missing.
C14_ExtractorsTotal ==
    extracted.called
        => /\ extracted.posted_on_timestamp.raised = None
           /\ "Posted On" \notin Range(html_summary)
                 => ~extracted.posted_on_timestamp.found
           /\ "soon" \in Range(html_summary) => ~extracted.posted_on_timestamp.found
           /\ "Hourly Range" \notin Range(html_summary) => ~extracted.hourly_range.found
           /\ "Skills" \notin Range(html_summary) => ~extracted.skills.found

\* ------------------------------------------------------------------ C15
\* C15: a send makes its transport calls in the order connect, starttls,
\* login, send_message, none of them twice; a send that succeeds makes all
\* four, and send_message is never called unless login was called before it
\* and returned.
C15_TransportOrder ==
    LET calls == last.calls
        Position(step) == CHOOSE i \in 1..4 :
                             <<"connect", "starttls", "login", "send_message">>[i] = step IN
    last.op = "_send_email"
        => /\ \A i, j \in 1..Len(calls) :
                 i < j => Position(calls[i]) < Position(calls[j])
           /\ last.result = "sent"
                 => calls = <<"connect", "starttls", "login", "send_message">>
           /\ last.connected => Len(calls) >= 1 /\ calls[1] = "connect"
           /\ \A i \in 1..Len(calls) :
                 calls[i] = "send_message"
                     => \E j \in 1..(i - 1) : calls[j] = "login"
           /\ last.result = "SMTPAuthenticationError"
                 => \A i \in 1..Len(calls) : calls[i] # "send_message"

\* A message has been sent, and a send has ended at a refused login.
C15_Witness ==
    /\ last.result = "sent"
    /\ Len(last.calls) = 4
    /\ pc = "sleeping"

\* ------------------------------------------------------------------ C16
\* C16: the loop stops only because of an authentication or addressing
\* failure of a send (a missing configuration stops the program before the
\* loop, a failed add_new_feed is raised to its caller outside the loop);
\* every other failure is logged and the loop goes on.
C16_LoopStopsOnlyOnFatalSend ==
    pc = "terminated"
        => loop_error \in {"InvalidSMTPLoginException", "InvalidSMTPAddressException"}

\* ------------------------------------------------------------------ C17
\* A batch none of whose links occurs twice.
DistinctLinks(response) ==
    \A i, j \in 1..Len(response.entries) :
        response.entries[i].link = response.entries[j].link => i = j

\* C17: with keyword extraction enabled, a failure of the extractor on an
\* entry does not abort the ingestion: a feed task on a batch of well-formed
\* entries with distinct links ends with the loop running and with every
\* entry of the batch in storage, with or without keywords.
C17_KeywordFailureIsolated ==
    [][\A url \in FeedUrls, response \in Responses :
          (/\ extract_keywords
           /\ WellFormed(response) /\ DistinctLinks(response)
           /\ task[url] = "inflight" /\ task'[url] # "inflight"
           /\ FeedTask(url, response))
             => /\ pc' # "terminated"
                /\ \A i \in 1..Len(response.entries) :
                      RowsOf(db_entries', response.entries[i].link) # {}
      ]_vars

\* ------------------------------------------------------------------ C18
\* A fetched document with distinct links whose summaries either carry a
\* well-formed date or no Posted On marker, the latter at least once.
HasUndated(response) ==
    /\ response.kind = "text"
    /\ DistinctLinks(response)
    /\ \A i \in 1..Len(response.entries) :
          response.entries[i].summary \in {SummaryDated, SummaryUndated}
    /\ \E i \in 1..Len(response.entries) :
          response.entries[i].summary = SummaryUndated

\* C18: an entry without a Posted On marker is still ingested.  A feed task
\* on a batch with such an entry leaves the loop running towards its
\* notification step, with every entry of the batch in storage and the new
\* undated ones stored with an absent posting time.
C18_UndatedStillIngested ==
    [][\A url \in FeedUrls, response \in Responses :
          (/\ HasUndated(response)
           /\ task[url] = "inflight" /\ task'[url] # "inflight"
           /\ FeedTask(url, response))
             => /\ pc' \in {"fetching", "notifying"}
                /\ \A i \in 1..Len(response.entries) :
                      LET entry == response.entries[i] IN
                      /\ RowsOf(db_entries', entry.link) # {}
                      /\ (entry.summary = SummaryUndated
                             /\ entry.link \notin existing_feed_urls)
                           => \A row \in RowsOf(db_entries', entry.link) :
                                 row.posted_on_timestamp = NULL
      ]_vars

\* ------------------------------------------------------------------ C19
\* The fetched documents of well-formed entries with distinct links.
CleanResponses ==
    {response \in Responses : WellFormed(response) /\ DistinctLinks(response)}

\* C19: cross-feed duplicates are resolved first-write-wins.  Take a feed
\* task of a cycle that ingests a batch of well-formed entries with distinct
\* links.  It ends without an exception and stamps its feed with the time
\* of the step.  Every link of the batch has exactly one row afterwards:
\* for a link that had a row, stored by the task of another feed that ran
\* before it in the cycle or earlier, that very row, with its owner; for a
\* link that had none, a row owned by the feed of the task.
C19_FirstWriteWins ==
    [][\A url \in FeedUrls :
          (task[url] = "inflight" /\ task'[url] # "inflight")
            => \A response \in CleanResponses :
                  FeedTask(url, response)
                    => /\ task'[url] = "done"
                       /\ loop_error' = None
                       /\ db_feeds'[url] = now
                       /\ \A i \in 1..Len(response.entries) :
                             LET link == response.entries[i].link
                                 before == RowsOf(db_entries, link)
                                 after == RowsOf(db_entries', link) IN
                             /\ Cardinality(after) = 1
                             /\ before # {} => after = before
                             /\ before = {} => \A row \in after : row.rss_feed = url
      ]_vars

\* The gather of a cycle with both feeds has returned: both tasks are done,
\* both feeds carry the time of the cycle, and the entry job2, which no
\* table held at startup, has its one row, owned by one of the feeds.
C19_Witness ==
    /\ pc = "notifying"
    /\ Len(ready_feeds) = 2
    /\ \A f \in FeedUrls : task[f] = "done" /\ db_feeds[f] = now
    /\ Cardinality(RowsOf(db_entries, "job2")) = 1

\* ------------------------------------------------------------------ C20
\* C20: a transport-level failure of the fetch of one due feed does not
\* affect its siblings.  When the task of a feed whose fetch failed ends
\* while another feed of the cycle is in flight or done, the cycle goes on:
\* the sibling in flight can still complete its ingestion, and once every
\* sibling is done the cycle is at its notification step.
C20_FailedFetchSparesSiblings ==
    [][\A f, g \in FeedUrls :
          (/\ f # g
           /\ task[g] \in {"inflight", "done"}
           /\ FeedTask(f, [kind |-> "None", entries |-> <<>>]))
             => /\ task'[g] = task[g]
                /\ pc' = IF task[g] = "done" THEN "notifying" ELSE "fetching"
      ]_vars

\* ------------------------------------------------------------------ C21
\* C21: admission follows persistence.  Every url of the dedup set is the
\* url of a row of storage, and an ingestion, of a feed task or of
\* add_new_feed, whose storage call is rejected admits no url.
C21_AdmissionFollowsPersistence ==
    /\ [](existing_feed_urls \subseteq {row.url : row \in db_entries})
    /\ [][(\/ loop_error' # loop_error /\ loop_error' = "IntegrityError"
           \/ last' # last /\ last'.op = "add_new_feed"
                           /\ last'.result = "IntegrityError")
             => /\ existing_feed_urls' = existing_feed_urls
                /\ db_entries' = db_entries
         ]_vars

\* A feed task has ended in a rejected storage call after an ingestion of
\* the run admitted job2, which no table held at startup.
C21_Witness ==
    /\ loop_error = "IntegrityError"
    /\ "job2" \in existing_feed_urls

\* ------------------------------------------------------------------ C22
\* C22: the last-checked timestamp of a feed never decreases, and it changes
\* only in the step in which the feed's own task of the loop completes: not
\* by the task of another feed, not by add_new_feed, not by the
\* notification step.
C22_LastCheckedMonotone ==
    [][\A f \in DOMAIN db_feeds :
          /\ f \in DOMAIN db_feeds'
          /\ db_feeds'[f] >= db_feeds[f]
          /\ db_feeds'[f] # db_feeds[f]
                => /\ pc = "fetching"
                   /\ task[f] = "inflight" /\ task'[f] = "done"
                   /\ db_feeds'[f] = now
      ]_vars

\* The task of a feed has completed and stamped it, while another feed of
\* storage still carries an older stamp.
C22_Witness ==
    /\ pc = "fetching"
    /\ \E f, g \in DOMAIN db_feeds :
          /\ task[f] = "done" /\ task[g] = "inflight"
          /\ db_feeds[f] = now /\ db_feeds[g] < now

\* ------------------------------------------------------------------ C23
\* C23: a call of add_new_feed that returns without an exception has stored
\* the record of the feed, appended the feed to the feed list and ingested
\* the fetched entries once: every fetched entry whose url was not known
\* has exactly one row, owned by the new feed, and is in the dedup set; the
\* rows of the known urls are as they were.  (Such a call, and no other
\* step that leaves add_new_feed in last.op, lengthens the feed list;
\* last.batch holds the links of the entries it fetched.)
C23_AddNewFeedIngests ==
    [][(feeds' # feeds /\ last'.op = "add_new_feed" /\ last'.result = None)
         => LET url == feeds'[Len(feeds')] IN
            /\ feeds' = Append(feeds, url)
            /\ url \notin DOMAIN db_feeds
            /\ url \in DOMAIN db_feeds' /\ db_feeds'[url] = now
            /\ last'.batch # {}
            /\ \A link \in last'.batch :
                  LET after == RowsOf(db_entries', link) IN
                  /\ link \in existing_feed_urls'
                  /\ Cardinality(after) = 1
                  /\ IF link \in existing_feed_urls
                     THEN after = RowsOf(db_entries, link)
                     ELSE \A row \in after : row.rss_feed = url /\ ~row.emailed
      ]_vars

\* add_new_feed of feed2 has just returned without an exception, having
\* fetched entries; job2 is stored for feed2 and in the dedup set.
C23_Witness ==
    /\ last.op = "add_new_feed" /\ last.result = None
    /\ last.fetched = "entries"
    /\ feeds # <<>> /\ feeds[Len(feeds)] = "feed2"
    /\ "job2" \in existing_feed_urls
    /\ \E row \in db_entries : row.url = "job2" /\ row.rss_feed = "feed2"

\* ------------------------------------------------------------------ C24
\* The number of times a call occurs in a sequence of calls.
Times(call, calls) == Cardinality({i \in 1..Len(calls) : calls[i] = call})

\* C24: a cycle sends at most one notification.  The notification step is
\* taken once in a cycle, after its gather or, with no feed due, at its
\* start, and ends the cycle; it hands at most one message to the server;
\* with no unsent entry in storage it opens no connection and leaves every
\* row as it was.
C24_OneNotificationPerCycle ==
    [][NotifyStep
         => /\ pc = "notifying" \/ CycleStarts
            /\ pc' \in {"sleeping", "terminated"}
            /\ Times("send_message", last'.calls) <= 1
            /\ Times("connect", last'.calls) <= 1
            /\ get_unemailed_entries = {}
                  => /\ last'.result = "empty"
                     /\ ~last'.connected /\ last'.calls = <<>>
                     /\ db_entries' = db_entries
                     /\ pc' = "sleeping"
      ]_vars

\* A cycle has ended without a notification, storage holding entries that
\* a cycle before it sent.
C24_Witness ==
    /\ pc = "sleeping"
    /\ last.op = "_send_email" /\ last.result = "empty"
    /\ \E row \in db_entries : row.emailed /\ row.url = "job2"

\* ------------------------------------------------------------------ C25
\* For each dedup set, the fetched documents none of whose entries has a url
\* outside it.
KnownResponses ==
    [known \in SUBSET EntryUrls |->
        {response \in Responses :
            /\ response.kind # "None"
            /\ \A i \in 1..Len(response.entries) :
                  response.entries[i].link \in known}]

\* C25: an ingestion that accepts no entry writes none.  While the task of a
\* feed is in flight, _process_entries on a fetched document whose entries
\* are all known, or which has none, raises nothing and leaves the stored
\* entries and the dedup set as they are; a feed task that completes and
\* changes either has stored an entry whose url was not known; and a call of
\* add_new_feed that fetched known entries only leaves both as they were.
C25_NothingAcceptedNothingWritten ==
    /\ [](\A f \in FeedUrls :
            (pc = "fetching" /\ task[f] = "inflight")
              => \A response \in KnownResponses[existing_feed_urls] :
                   \A got \in get_entries(response, FALSE), nlp \in NlpFailures :
                      LET p == process_entries(f, got.entries, nlp) IN
                      /\ got.raised = None
                      /\ p.raised = None
                      /\ p.rows = db_entries
                      /\ p.urls = existing_feed_urls)
    /\ [][/\ \A f \in FeedUrls :
              (/\ task[f] = "inflight" /\ task'[f] = "done"
               /\ \/ db_entries' # db_entries
                  \/ existing_feed_urls' # existing_feed_urls)
                => \E row \in db_entries' \ db_entries :
                      /\ row.url \notin existing_feed_urls
                      /\ row.url \in existing_feed_urls'
           /\ (/\ last'.op = "add_new_feed" /\ last'.fetched = "entries"
                /\ last'.batch \subseteq existing_feed_urls
                /\ pc' = pc /\ task' = task /\ now' = now)
                  => /\ db_entries' = db_entries
                     /\ existing_feed_urls' = existing_feed_urls
          ]_vars

\* The task of feed2 has completed in a cycle and storage holds what it
\* held at startup, entry job1 of feed1, and nothing else.
C25_Witness ==
    /\ task["feed2"] = "done"
    /\ existing_feed_urls = {"job1"}
    /\ \A row \in db_entries : row.url = "job1" /\ row.rss_feed = "feed1"
    /\ db_entries # {}

\* ------------------------------------------------------------------ C26
\* C26: no entry is part of two successful sends of a run.  A successful
\* send leaves every entry of its batch with sent-flag true, an entry with
\* sent-flag true is in the batch of no notification step, and no step
\* takes a sent-flag back.
C26_NoEntrySentTwice ==
    [][/\ \A row \in db_entries :
            row.emailed => row \in db_entries'
       /\ NotifyStep
            => /\ \A row \in db_entries :
                    row.emailed => row.url \notin last'.batch
               /\ last'.result = "sent"
                    => \A url \in last'.batch :
                          /\ RowsOf(db_entries', url) # {}
                          /\ \A row \in RowsOf(db_entries', url) : row.emailed
      ]_vars

\* A second successful send of a run: job2 has just been sent alone, job1
\* was sent by a notification before it.
C26_Witness ==
    /\ last.op = "_send_email" /\ last.result = "sent"
    /\ last.batch = {"job2"}
    /\ \A row \in db_entries : row.emailed
    /\ \E row \in db_entries : row.url = "job1"

\* ------------------------------------------------------------------ C27
\* C27: the loop never spins.  A cycle that finds no feed due, the feed
\* list empty or not, and goes to sleep sleeps for a strictly positive time.
C27_NoSpin ==
    [][(NotifyStep /\ pc # "notifying" /\ pc' = "sleeping")
          => max_wait_time' > 0 /\ wake_at' > now
      ]_vars

\* ------------------------------------------------------------------ C28
\* The loop is running: started, and not ended by an exception.
LoopRuns == pc \in {"loaded", "fetching", "notifying", "sleeping"}

\* Every fetch returns: no task stays in flight for ever.
FetchesReturn == \A f \in FeedUrls : []<>(task[f] # "inflight")

\* C28: liveness of polling.  If the loop runs for ever and every fetch
\* returns, then every feed that is in the feed list from some time on
\* (no feed leaves the list), loaded at startup or added by add_new_feed,
\* is dispatched again and again.
C28_PollingLive ==
    (<>[]LoopRuns /\ FetchesReturn)
        => \A f \in FeedUrls :
              \/ <>[](f \notin Range(feeds))
              \/ []<>(task[f] = "inflight")

\* Beyond the time bound, feed2, added to the list by add_new_feed in this
\* run, is dispatched once more.
C28_Witness ==
    /\ now = MaxTime
    /\ task["feed2"] = "inflight"
    /\ db_feeds["feed2"] = now - wait_seconds
    /\ wake_at = 0 /\ max_wait_time > 0

\* ------------------------------------------------------------------ C29
\* If the loop runs for ever and every fetch returns, every stored entry
\* gets its sent-flag.
EventuallyFlagged ==
    (<>[]LoopRuns /\ FetchesReturn)
        => \A url \in EntryUrls :
              [](RowsOf(db_entries, url) # {}
                   => <>(\E row \in RowsOf(db_entries, url) : row.emailed))

\* C29: liveness of delivery.  If the loop runs for ever, every stored
\* entry, ingested by a feed task or by add_new_feed, gets its sent-flag,
\* and it gets it in a notification step whose send included it and
\* succeeded.
C29_DeliveryLive ==
    /\ EventuallyFlagged
    /\ [][\A row \in db_entries' :
            (row.emailed /\ row \notin db_entries)
              => /\ last'.op = "_send_email" /\ last'.result = "sent"
                 /\ row.url \in last'.batch
         ]_vars

====
